---- MODULE Spec2Model ----
(***************************************************************************)
(* The Kokkos package recipe                                               *)
(* (var/spack/repos/builtin/packages/kokkos/package.py): its declared      *)
(* versions, variants, conflicts and dependencies, and the translation of  *)
(* a concrete variant selection into CMake arguments by cmake_args.        *)
(*                                                                         *)
(* The state machine follows one build: the user overrides variants of    *)
(* the recipe's defaults, the host concretizes the selection against the   *)
(* declared conflicts for one declared version, and cmake_args is called   *)
(* on a selection that passed.                                             *)
(***************************************************************************)
EXTENDS Integers, Sequences, FiniteSets, TLC

\* pc:         "select", "valid", "rejected", "done" or "error"
\* spec:       self.spec, variant name -> value
\* overridden: names of the variants the user set explicitly
\* version:    the version of the concrete spec, NoVersion before
\* args:       the list returned by the latest cmake_args call
\* returned:   the lists returned by all cmake_args calls so far
VARIABLES pc, spec, overridden, version, args, returned

vars == <<pc, spec, overridden, version, args, returned>>

(***************************************************************************)
(* Bounds of the model.                                                    *)
(***************************************************************************)
MaxOverrides == 3
MaxCalls == 2

(***************************************************************************)
(* Versions (package.py lines 17-29), newest first as declared.  The key   *)
(* is the tuple of numeric components ('2.04.11' is 2, 4, 11); 'develop'   *)
(* is a branch and compares above every numbered release.                  *)
(***************************************************************************)
NoVersion == "unset"

Versions ==
    << "develop", "2.8.00", "2.7.24", "2.7.00", "2.5.00", "2.04.11",
       "2.04.04", "2.04.00", "2.03.13", "2.03.05", "2.03.00", "2.02.15",
       "2.02.07" >>

VersionSet == {Versions[i] : i \in DOMAIN Versions}

VersionKey(v) ==
    CASE v = "2.8.00"  -> <<2, 8, 0>>
      [] v = "2.7.24"  -> <<2, 7, 24>>
      [] v = "2.7.00"  -> <<2, 7, 0>>
      [] v = "2.5.00"  -> <<2, 5, 0>>
      [] v = "2.04.11" -> <<2, 4, 11>>
      [] v = "2.04.04" -> <<2, 4, 4>>
      [] v = "2.04.00" -> <<2, 4, 0>>
      [] v = "2.03.13" -> <<2, 3, 13>>
      [] v = "2.03.05" -> <<2, 3, 5>>
      [] v = "2.03.00" -> <<2, 3, 0>>
      [] v = "2.02.15" -> <<2, 2, 15>>
      [] v = "2.02.07" -> <<2, 2, 7>>

IsDevelop(v) == v = "develop"

\* Lexicographic order on component tuples; a proper prefix is smaller.
RECURSIVE KeyLess(_, _)
KeyLess(a, b) ==
    IF b = << >> THEN FALSE
    ELSE IF a = << >> THEN TRUE
    ELSE IF Head(a) # Head(b) THEN Head(a) < Head(b)
    ELSE KeyLess(Tail(a), Tail(b))

\* b starts with the components of a ('2.7.00' contains '2.7.00.1').
KeyPrefix(a, b) ==
    /\ Len(a) <= Len(b)
    /\ \A i \in DOMAIN a : a[i] = b[i]

\* '@lo:hi' with either end open (the empty tuple): both ends inclusive,
\* the upper end also admitting every version it is a prefix of.
InRange(v, lo, hi) ==
    IF IsDevelop(v) THEN hi = << >>
    ELSE /\ \/ lo = << >>
            \/ lo = VersionKey(v)
            \/ KeyLess(lo, VersionKey(v))
         /\ \/ hi = << >>
            \/ hi = VersionKey(v)
            \/ KeyLess(VersionKey(v), hi)
            \/ KeyPrefix(hi, VersionKey(v))

(***************************************************************************)
(* Variants (package.py lines 31-94).  'debug' is declared twice (lines 31 *)
(* and 38) under one name.                                                 *)
(***************************************************************************)
BoolVariants ==
    { "debug", "serial", "pthreads", "qthreads", "cuda", "openmp", "pic",
      "aggressive_vectorization", "disable_profiling",
      "disable_dualview_modify_check", "enable_profile_load_print",
      "compiler_warnings", "disable_deprecated_code", "enable_eti",
      "force_uvm", "use_ldg", "rdc", "enable_lambda" }

EnumVariants == { "host_arch", "gpu_arch" }

Variants == BoolVariants \cup EnumVariants

\* gpu_values with the default 'none' listed among the values.
gpu_values_with_none ==
    << "none", "Kepler30", "Kepler32", "Kepler35", "Kepler37",
       "Maxwell50", "Maxwell52", "Maxwell53",
       "Pascal60", "Pascal61",
       "Volta70", "Volta72" >>

gpu_values ==
    << "Kepler30", "Kepler32", "Kepler35", "Kepler37",
       "Maxwell50", "Maxwell52", "Maxwell53",
       "Pascal60", "Pascal61",
       "Volta70", "Volta72" >>

cuda_options == << "force_uvm", "use_ldg", "rdc", "enable_lambda" >>

host_values ==
    << "AMDAVX", "ARMv80", "ARMv81", "ARMv8-ThunderX",
       "Power7", "Power8", "Power9",
       "WSM", "SNB", "HSW", "BDW", "SKX", "KNC", "KNL" >>

Range(seq) == {seq[i] : i \in DOMAIN seq}

\* The 'values' a variant declares; a variant declared with a boolean
\* default and no 'values' takes True and False.
DeclaredValues(v) ==
    IF v = "host_arch" THEN Range(host_values)
    ELSE IF v = "gpu_arch" THEN Range(gpu_values)
    ELSE {TRUE, FALSE}

\* The 'default' a variant declares.
Default(v) ==
    IF v \in EnumVariants THEN "none"
    ELSE v = "serial"

DefaultSpec == [v \in Variants |-> Default(v)]


(***************************************************************************)
(* Conflicts (package.py lines 96-132), in declaration order.  A conflict  *)
(* names a variant value and the condition ('when') under which that       *)
(* value is forbidden: the value of another variant or a version range.    *)
(***************************************************************************)
WhenVersion(lo, hi) == [kind |-> "version", lo |-> lo, hi |-> hi]

WhenVariant(name, value) == [kind |-> "variant", name |-> name, value |-> value]

Conflict(name, value, when) == [name |-> name, value |-> value, when |-> when]

\* Checks on Kokkos version and Kokkos options (lines 97-103).
OptionVersionConflicts ==
    << Conflict("aggressive_vectorization", TRUE, WhenVersion(<< >>, <<2, 0, 99>>)),
       Conflict("disable_profiling", TRUE, WhenVersion(<< >>, <<2, 0, 99>>)),
       Conflict("disable_dualview_modify_check", TRUE, WhenVersion(<< >>, <<2, 3, 4>>)),
       Conflict("enable_profile_load_print", TRUE, WhenVersion(<< >>, <<2, 3, 4>>)),
       Conflict("compiler_warnings", TRUE, WhenVersion(<< >>, <<2, 3, 14>>)),
       Conflict("disable_deprecated_code", TRUE, WhenVersion(<< >>, <<2, 5, 99>>)),
       Conflict("enable_eti", TRUE, WhenVersion(<< >>, <<2, 6, 99>>)) >>

\* A GPU architecture without CUDA (lines 107-109): all but the last value.
GpuArchConflictsShort ==
    [i \in 1..(Len(gpu_values) - 1) |->
        Conflict("gpu_arch", gpu_values[i], WhenVariant("cuda", FALSE))]

\* A GPU architecture without CUDA (lines 107-109): one per gpu_values entry.
GpuArchConflicts ==
    [i \in DOMAIN gpu_values |->
        Conflict("gpu_arch", gpu_values[i], WhenVariant("cuda", FALSE))]

\* A Kokkos CUDA option without CUDA (lines 113-120), enable_lambda left out.
CudaOptionConflictsNoLambda ==
    << Conflict("force_uvm", TRUE, WhenVariant("cuda", FALSE)),
       Conflict("use_ldg", TRUE, WhenVariant("cuda", FALSE)),
       Conflict("rdc", TRUE, WhenVariant("cuda", FALSE)) >>

\* A Kokkos CUDA option without CUDA (lines 113-120).
CudaOptionConflicts ==
    << Conflict("force_uvm", TRUE, WhenVariant("cuda", FALSE)),
       Conflict("use_ldg", TRUE, WhenVariant("cuda", FALSE)),
       Conflict("rdc", TRUE, WhenVariant("cuda", FALSE)),
       Conflict("enable_lambda", TRUE, WhenVariant("cuda", FALSE)) >>

\* A GPU architecture the revision does not support (lines 124-125).
VoltaVersionConflicts ==
    << Conflict("gpu_arch", "Volta70", WhenVersion(<< >>, <<2, 5, 99>>)),
       Conflict("gpu_arch", "Volta72", WhenVersion(<< >>, <<2, 5, 99>>)) >>

\* Kokkos issue #1296 (lines 130-132), the range ending at 2.6.99.
CudaVersionConflictShort ==
    << Conflict("cuda", TRUE, WhenVersion(<<2, 5, 0>>, <<2, 6, 99>>)) >>

\* Kokkos issue #1296 (lines 130-132): CUDA in 2.5.00 through 2.7.00.
CudaVersionConflict ==
    << Conflict("cuda", TRUE, WhenVersion(<<2, 5, 0>>, <<2, 7, 0>>)) >>

Conflicts ==
    OptionVersionConflicts \o GpuArchConflicts \o CudaOptionConflicts
        \o VoltaVersionConflicts \o CudaVersionConflict

\* The condition of a conflict or dependency holds for selection s at ver.
WhenHolds(w, s, ver) ==
    CASE w.kind = "always"  -> TRUE
      [] w.kind = "variant" -> s[w.name] = w.value
      [] w.kind = "version" -> InRange(ver, w.lo, w.hi)

\* Selection s at version ver matches conflict c.
Matches(c, s, ver) ==
    /\ s[c.name] = c.value
    /\ WhenHolds(c.when, s, ver)

MatchedConflicts(s, ver) ==
    {i \in DOMAIN Conflicts : Matches(Conflicts[i], s, ver)}

Conflicting(s, ver) == MatchedConflicts(s, ver) # {}

(***************************************************************************)
(* Dependencies (package.py lines 135-137).                                *)
(***************************************************************************)
Dependencies ==
    << [pkg |-> "hwloc", when |-> [kind |-> "always"]],
       [pkg |-> "qthreads", when |-> WhenVariant("qthreads", TRUE)],
       [pkg |-> "cuda", when |-> WhenVariant("cuda", TRUE)] >>

ActiveDependencies(s, ver) ==
    {Dependencies[i].pkg : i \in {j \in DOMAIN Dependencies :
                                     WhenHolds(Dependencies[j].when, s, ver)}}

(***************************************************************************)
(* cmake_args (package.py lines 139-199).                                  *)
(***************************************************************************)
KeyError == "KeyError"

\* '+name' in spec
Has(s, name) == name \in DOMAIN s /\ s[name] = TRUE

\* spec.variants[name].value
VariantValue(s, name) == IF name \in DOMAIN s THEN s[name] ELSE KeyError

\* The list the flags are appended to, kept from the previous call.
NewArgsKept == args

\* args = [] (line 142)
NewArgs == << >>

\* The backend, pic and debug tests (lines 143-157): <<variant, flag>>.
BackendSteps ==
    << <<"serial", "-DKOKKOS_ENABLE_SERIAL=ON">>,
       <<"openmp", "-DKOKKOS_ENABLE_OPENMP=ON">>,
       <<"qthreads", "-DKOKKOS_ENABLE_QTHREADS=ON">>,
       <<"pthreads", "-DKOKKOS_ENABLE_PTHREAD=ON">>,
       <<"cuda", "-DKOKKOS_ENABLE_CUDA=ON">>,
       <<"pic", "-DBUILD_SHARED_LIBS=ON">>,
       <<"debug", "-DKOKKOS_ENABLE_DEBUG=ON">> >>

\* The CUDA option tests (lines 176-181).
CudaOptionSteps ==
    << <<"force_uvm", "-DKOKKOS_ENABLE_CUDA_UVM=ON">>,
       <<"use_ldg", "-DKOKKOS_ENABLE_CUDA_LDG_INTRINSIC=ON">>,
       <<"enable_lambda", "-DKOKKOS_ENABLE_CUDA_LAMBDA=ON">> >>

\* The Kokkos option tests (lines 184-197).
KokkosOptionSteps ==
    << <<"aggressive_vectorization", "-DKOKKOS_ENABLE_AGGRESSIVE_VECTORIZATION=ON">>,
       <<"disable_profiling", "-DKOKKOS_ENABLE_PROFILING=OFF">>,
       <<"disable_dualview_modify_check", "-DKOKKOS_ENABLE_DEBUG_DUALVIEW_MODIFY_CHECK=OFF">>,
       <<"enable_profile_load_print", "-DKOKKOS_ENABLE_PROFILING_LOAD_PRINT=OFF">>,
       <<"compiler_warnings", "-DKOKKOS_ENABLE_COMPILER_WARNINGS=ON">>,
       <<"disable_deprecated_code", "-DKOKKOS_ENABLE_DEPRECATED_CODE=OFF">>,
       <<"enable_eti", "-DKOKKOS_ENABLE_EXPLICIT_INSTANTIATION=ON">> >>

\* One test-and-append with the test on the variant's presence only.
AppendStepAnyValue(a, step, s) ==
    IF step[1] \in DOMAIN s THEN Append(a, step[2]) ELSE a

\* if '+variant' in spec: args.append(flag)
AppendStep(a, step, s) ==
    IF Has(s, step[1]) THEN Append(a, step[2]) ELSE a

\* A run of consecutive test-and-append statements, in source order.
RECURSIVE AppendEnabled(_, _, _)
AppendEnabled(a, steps, s) ==
    IF steps = << >> THEN a
    ELSE AppendEnabled(AppendStep(a, Head(steps), s), Tail(steps), s)

\* The architecture list with the GPU architecture appended first.
ArchArgsGpuFirst(host_arch, gpu_arch) ==
    (IF gpu_arch # "none" THEN <<gpu_arch>> ELSE << >>)
        \o (IF host_arch # "none" THEN <<host_arch>> ELSE << >>)

\* arch_args after lines 159-170: host architecture, then GPU architecture.
ArchArgs(host_arch, gpu_arch) ==
    (IF host_arch # "none" THEN <<host_arch>> ELSE << >>)
        \o (IF gpu_arch # "none" THEN <<gpu_arch>> ELSE << >>)

\* sep.join(items)
RECURSIVE Join(_, _)
Join(items, sep) ==
    IF items = << >> THEN ""
    ELSE IF Len(items) = 1 THEN items[1]
    ELSE items[1] \o sep \o Join(Tail(items), sep)

\* '-DKOKKOS_ARCH={0}'.format(','.join(arch_args))
ArchFlag(arch_args) == "-DKOKKOS_ARCH=" \o Join(arch_args, ",")

\* The combined flag appended whether or not an architecture was selected.
AppendArchAlways(a, arch_args) == Append(a, ArchFlag(arch_args))

\* if arch_args: args.append(...) (lines 172-173)
AppendArch(a, arch_args) ==
    IF arch_args # << >> THEN Append(a, ArchFlag(arch_args)) ELSE a

\* The outcome of one call: the returned list, or the KeyError of a
\* variant lookup.
cmake_args(s) ==
    LET a1 == AppendEnabled(NewArgs, BackendSteps, s)
        host_arch == VariantValue(s, "host_arch")
        gpu_arch == VariantValue(s, "gpu_arch")
        a2 == AppendArch(a1, ArchArgs(host_arch, gpu_arch))
        a3 == AppendEnabled(a2, CudaOptionSteps, s)
        a4 == AppendEnabled(a3, KokkosOptionSteps, s)
    IN  IF host_arch = KeyError \/ gpu_arch = KeyError
        THEN [raised |-> TRUE, value |-> << >>]
        ELSE [raised |-> FALSE, value |-> a4]

(***************************************************************************)
(* One build.                                                              *)
(***************************************************************************)
Init ==
    /\ pc = "select"
    /\ spec = DefaultSpec
    /\ overridden = {}
    /\ version = NoVersion
    /\ args = << >>
    /\ returned = << >>

\* The user sets variant v to val on the command line.  The host accepts
\* only the values the variant declares; a value equal to the default
\* leaves the selection as it is and is not modelled.
Override(v, val) ==
    /\ pc = "select"
    /\ Cardinality(overridden) < MaxOverrides
    /\ v \notin overridden
    /\ val \in DeclaredValues(v)
    /\ val # Default(v)
    /\ spec' = [spec EXCEPT ![v] = val]
    /\ overridden' = overridden \cup {v}
    /\ UNCHANGED <<pc, version, args, returned>>

\* The host fixes the version and checks the declared conflicts.
Concretize(ver) ==
    /\ pc = "select"
    /\ version' = ver
    /\ pc' = IF Conflicting(spec, ver) THEN "rejected" ELSE "valid"
    /\ UNCHANGED <<spec, overridden, args, returned>>

\* The host calls cmake_args on the concrete spec.
CallCmakeArgs ==
    /\ pc \in {"valid", "done"}
    /\ Len(returned) < MaxCalls
    /\ LET r == cmake_args(spec)
       IN  IF r.raised
           THEN /\ pc' = "error"
                /\ UNCHANGED <<args, returned>>
           ELSE /\ pc' = "done"
                /\ args' = r.value
                /\ returned' = Append(returned, r.value)
    /\ UNCHANGED <<spec, overridden, version>>

Next ==
    \/ \E v \in Variants : \E val \in DeclaredValues(v) : Override(v, val)
    \/ \E ver \in VersionSet : Concretize(ver)
    \/ CallCmakeArgs

Spec == Init /\ [][Next]_vars

(***************************************************************************)
(* Vocabulary of the properties.                                           *)
(***************************************************************************)
\* Every test-and-append statement of cmake_args, in source order.
AllSteps == BackendSteps \o CudaOptionSteps \o KokkosOptionSteps

\* The flags cmake_args appends under the test of boolean variant v.
FlagsOf(v) ==
    {AllSteps[i][2] : i \in {j \in DOMAIN AllSteps : AllSteps[j][1] = v}}

\* The number of positions of list a that hold a flag of set F.
Occurrences(a, F) == Cardinality({i \in DOMAIN a : a[i] \in F})

ArchIds == Range(host_values) \cup Range(gpu_values)

\* Every list of at most two architecture identifiers, in any order.
ArchLists ==
    {<< >>} \cup {<<x>> : x \in ArchIds} \cup {<<x, y>> : x, y \in ArchIds}

\* Every flag of the form -DKOKKOS_ARCH=<list>.
ArchFlagForms == {ArchFlag(l) : l \in ArchLists}

\* The -DKOKKOS_ARCH flags whose list names one of the identifiers in ids.
ArchFlagsListing(ids) ==
    {ArchFlag(l) : l \in {m \in ArchLists : Range(m) \cap ids # {}}}

GpuArchFlagForms == ArchFlagsListing(Range(gpu_values))

VoltaArchFlagForms == ArchFlagsListing({"Volta70", "Volta72"})

Translated == pc = "done"

\* Some selection reachable from s by at most k further overrides of
\* variants still at their default matches no conflict at version ver.
RECURSIVE Buildable(_, _, _)
Buildable(s, ver, k) ==
    \/ ~Conflicting(s, ver)
    \/ /\ k > 0
       /\ \E v \in {w \in Variants : s[w] = Default(w)} :
              \E val \in DeclaredValues(v) \ {Default(v)} :
                  Buildable([s EXCEPT ![v] = val], ver, k - 1)

(***************************************************************************)
(* Properties.                                                             *)
(***************************************************************************)

\* C1: in the list cmake_args returns, every enabled boolean variant
\* (serial, pthreads, qthreads, cuda, openmp, debug, pic, the seven Kokkos
\* options and the four CUDA options, rdc among them) has exactly one
\* occurrence of a flag that cmake_args appends for that variant.
C1_OneFlagPerEnabledVariant ==
    Translated =>
        \A v \in BoolVariants :
            spec[v] = TRUE => Occurrences(args, FlagsOf(v)) = 1

\* C2: the list cmake_args returns holds no flag of a disabled boolean
\* variant and no flag twice, and apart from the architecture flag its set
\* of flags is exactly the set of the flags of the enabled variants.
C2_ExactlyEnabledFlags ==
    Translated =>
        /\ \A v \in BoolVariants :
               spec[v] = FALSE => Occurrences(args, FlagsOf(v)) = 0
        /\ \A i, j \in DOMAIN args : args[i] = args[j] => i = j
        /\ Range(args) \ ArchFlagForms =
               UNION {FlagsOf(v) : v \in {w \in BoolVariants : spec[w] = TRUE}}

C2_Witness ==
    /\ Translated
    /\ spec["serial"] = FALSE
    /\ spec["openmp"] = TRUE
    /\ spec["enable_eti"] = TRUE
    /\ args = << "-DKOKKOS_ENABLE_OPENMP=ON",
                 "-DKOKKOS_ENABLE_EXPLICIT_INSTANTIATION=ON" >>

\* C3: when host_arch or gpu_arch is not 'none', the returned list holds
\* exactly one -DKOKKOS_ARCH flag, and it lists the selected identifiers
\* joined by a comma, the host architecture before the GPU architecture.
C3_ArchFlag ==
    LET h == spec["host_arch"]
        g == spec["gpu_arch"]
        list == IF h # "none" /\ g # "none" THEN h \o "," \o g
                ELSE IF h # "none" THEN h ELSE g
    IN  (Translated /\ (h # "none" \/ g # "none")) =>
            /\ Occurrences(args, ArchFlagForms) = 1
            /\ Occurrences(args, {"-DKOKKOS_ARCH=" \o list}) = 1
            /\ (h = "HSW" /\ g = "none") =>
                   Occurrences(args, {"-DKOKKOS_ARCH=HSW"}) = 1
            /\ (h = "none" /\ g = "Volta70") =>
                   Occurrences(args, {"-DKOKKOS_ARCH=Volta70"}) = 1
            /\ (h = "SKX" /\ g = "Pascal60") =>
                   Occurrences(args, {"-DKOKKOS_ARCH=SKX,Pascal60"}) = 1

C3_Witness ==
    /\ Translated
    /\ spec["host_arch"] = "SKX"
    /\ spec["gpu_arch"] = "Pascal60"
    /\ args = << "-DKOKKOS_ENABLE_SERIAL=ON", "-DKOKKOS_ENABLE_CUDA=ON",
                 "-DKOKKOS_ARCH=SKX,Pascal60" >>

\* C4: when host_arch and gpu_arch are both 'none', the returned list
\* holds no -DKOKKOS_ARCH flag, whatever the boolean variants are.
C4_NoArchFlag ==
    (Translated /\ spec["host_arch"] = "none" /\ spec["gpu_arch"] = "none") =>
        Occurrences(args, ArchFlagForms) = 0

C4_Witness ==
    /\ Translated
    /\ spec["host_arch"] = "none"
    /\ spec["gpu_arch"] = "none"
    /\ spec["cuda"] = TRUE
    /\ spec["debug"] = TRUE
    /\ args # << >>

\* C5: every entry of gpu_values has a declared conflict with cuda
\* disabled; a concretized selection with a GPU architecture and cuda
\* disabled matches one and is rejected, so cmake_args is never reached
\* with gpu_arch other than 'none' and cuda disabled.
C5_GpuArchNeedsCuda ==
    /\ Len(gpu_values) = 11
    /\ \A p \in Range(gpu_values) :
           \E i \in DOMAIN Conflicts :
               Conflicts[i] = Conflict("gpu_arch", p, WhenVariant("cuda", FALSE))
    /\ (pc # "select" /\ spec["gpu_arch"] \in Range(gpu_values)
            /\ spec["cuda"] = FALSE) =>
           /\ pc = "rejected"
           /\ \E i \in MatchedConflicts(spec, version) :
                  /\ Conflicts[i].name = "gpu_arch"
                  /\ Conflicts[i].when = WhenVariant("cuda", FALSE)
    /\ pc \in {"valid", "done", "error"} =>
           (spec["gpu_arch"] = "none" \/ spec["cuda"] = TRUE)

C5_Witness ==
    /\ pc = "rejected"
    /\ spec["gpu_arch"] = "Volta72"
    /\ spec["cuda"] = FALSE
    /\ version = "develop"
    /\ Cardinality(overridden) = 1

\* C6: every variant's effective value is its declared default or a value
\* the user set explicitly, and it belongs to the values the variant
\* declares; in particular the defaults of host_arch and gpu_arch do.
C6_EffectiveValueDeclared ==
    \A v \in Variants :
        /\ spec[v] = Default(v) \/ v \in overridden
        /\ spec[v] \in DeclaredValues(v)

\* C7: for each of the 13 declared versions some selection of variant
\* values matches none of the declared conflicts.
C7_EveryVersionBuildable ==
    /\ Len(Versions) = 13
    /\ pc = "select" =>
           \A ver \in VersionSet : Buildable(DefaultSpec, ver, MaxOverrides)

C7_Witness ==
    /\ pc = "valid"
    /\ version = "2.5.00"
    /\ spec["gpu_arch"] = "none"
    /\ spec["cuda"] = FALSE

C9_CudaFlagsNeedCuda ==
    LET cudaSpecific ==
            { "-DKOKKOS_ENABLE_CUDA_UVM=ON",
              "-DKOKKOS_ENABLE_CUDA_LDG_INTRINSIC=ON",
              "-DKOKKOS_ENABLE_CUDA_LAMBDA=ON" } \cup GpuArchFlagForms
    IN  (Translated /\ Range(args) \cap cudaSpecific # {}) =>
            /\ "-DKOKKOS_ENABLE_CUDA=ON" \in Range(args)
            /\ "cuda" \in ActiveDependencies(spec, version)

C9_Witness ==
    /\ Translated
    /\ "-DKOKKOS_ENABLE_CUDA_LAMBDA=ON" \in Range(args)
    /\ "-DKOKKOS_ARCH=Kepler35" \in Range(args)
    /\ "-DKOKKOS_ENABLE_CUDA=ON" \in Range(args)

\* C10: in a selection that matches no declared conflict, cuda is never
\* enabled at version 2.5.00 or 2.7.00 and gpu_arch is Volta70 or Volta72
\* only at 2.7.24, 2.8.00 or develop, so an architecture flag listing
\* Volta70 or Volta72 is returned only at those three versions.
C10_VoltaVersions ==
    pc \in {"valid", "done"} =>
        /\ spec["cuda"] = TRUE => version \notin {"2.5.00", "2.7.00"}
        /\ spec["gpu_arch"] \in {"Volta70", "Volta72"} =>
               version \in {"2.7.24", "2.8.00", "develop"}
        /\ (Translated /\ Range(args) \cap VoltaArchFlagForms # {}) =>
               version \in {"2.7.24", "2.8.00", "develop"}

C10_Witness ==
    /\ Translated
    /\ version = "2.7.24"
    /\ spec["gpu_arch"] = "Volta72"
    /\ "-DKOKKOS_ARCH=Volta72" \in Range(args)

====
